---- MODULE Spec2Model ----
(***************************************************************************)
(* A model of tfo-go's deferred-connect TCP Fast Open connection for the   *)
(* darwin/freebsd build: the tfoConn handle of tfo_bsd.go (dialTFO, Read,  *)
(* ReadFrom, Write, Close, the option and deadline setters) and the        *)
(* connect strategy and listener of tfo_darwin.go (connect, listenTFO).    *)
(*                                                                         *)
(* Spec        the handle after dialTFO returned it, used by concurrent    *)
(*             callers; the operating system's descriptor table and the    *)
(*             peer-bound byte stream are part of the state.               *)
(* SpecEntry   the two entry points, one call each: dialTFO from its       *)
(*             arguments to the handle or error it returns, and listenTFO  *)
(*             from the underlying listen to the listener or error it      *)
(*             returns, every syscall of either able to fail.              *)
(* SpecLive    Spec with fairness: a connect in progress ends, a goroutine *)
(*             blocked on the mutex gets it.                               *)
(* SpecKeepAlive  one call of setKeepAlivePeriod with any duration.        *)
(***************************************************************************)
EXTENDS Integers, Sequences, FiniteSets, TLC

\* ------------------------------------------------------------------ bounds
NThreads == 2       \* goroutines calling into one handle
MaxCalls == 2       \* API calls made on the handle in one behaviour
MaxLen == 2         \* length of a buffer handed to Write / a reader's content
MaxDuration == 2500 \* longest keep-alive period asked for, in milliseconds

Threads == 1..NThreads

\* ------------------------------------------------------------------- state
VARIABLES
    th,             \* per goroutine: the call in flight and its locals
    mu,             \* tfoConn.mu: 0 unlocked, else the holder
    connected,      \* tfoConn.connected
    closed,         \* the os.File c.f has been closed
    fdOwner,        \* who owns descriptor number c.fd in the OS table
    foreign,        \* a syscall via c.fd acted on a socket the handle does not own
    dl,             \* deadlines on c.f: r and w each "none", "set" (still
                    \* ahead) or "passed"; tied: one SetDeadline set both
    connectCalls,   \* how many times c.connect was invoked
    failConnects,   \* how many of them returned an error
    unacked,        \* bytes handed to the kernel that no returned count covers yet
    streamOk,       \* every returned count matched the bytes handed over, in order
    ret,            \* the API call that returned last, with what it did
    ncalls,         \* API calls made so far
    ioStarted,      \* a Read, ReadFrom or Write has been called
    sockopt,        \* socket options of the handle's socket: asked, a setter
                    \* set one and returned nil; on, the socket has it set
    dial,           \* one call of dialTFO: arguments, locals, descriptor, result
    lst,            \* one call of listenTFO: arguments, listener, result
    ka              \* one call of setKeepAlivePeriod: argument, locals, result

connVars == <<th, mu, connected, closed, fdOwner, foreign, dl, connectCalls,
              failConnects, unacked, streamOk, ret, ncalls, ioStarted, sockopt>>
vars == <<th, mu, connected, closed, fdOwner, foreign, dl, connectCalls,
          failConnects, unacked, streamOk, ret, ncalls, ioStarted, sockopt,
          dial, lst, ka>>

IOOps == {"Read", "ReadFrom", "Write"}
ReadOps == {"Read", "ReadFrom"}

\* The buffer goroutine t hands over: each byte is tagged with its caller and
\* its index, so a duplicated or reordered byte shows in the stream.
Buf(t, len) == [i \in 1..len |-> <<t, i>>]

Prefix(s, n) == SubSeq(s, 1, n)

\* A goroutine with no call in flight. Of a call in flight: op its method, len
\* its buffer's length, ac whether Close had returned when it was made, w
\* whether it had to wait in c.mu.Lock(), ent /
\* cx / setc / fio whether it has entered connect, how often it issued
\* Connectx, whether it set connected and did descriptor I/O; b, done, cn,
\* perr, xerr are connect's b, done, n, perr and the closure's err; late:
\* the deadline of the call's own direction had passed when its wait inside
\* connect ended; cb how often rawConn.Write has run the closure; qs whether
\* connect has queried the socket error.
NoCall ==
    [pc |-> "idle", op |-> "none", len |-> 0, w |-> FALSE,
     ac |-> FALSE, ent |-> FALSE, cx |-> 0, setc |-> FALSE, fio |-> FALSE,
     b |-> <<>>, done |-> FALSE, cn |-> 0, perr |-> "nil", xerr |-> "nil",
     late |-> FALSE, cb |-> 0, qs |-> FALSE]

\* What a returning call leaves in ret: its method, buffer length, results n
\* and err, and what it did; hard: Connectx returned an error other than
\* EINPROGRESS in it.
Returned(c, n, err) ==
    [op |-> c.op, len |-> c.len, n |-> n, err |-> err, ac |-> c.ac, ent |-> c.ent,
     cx |-> c.cx, setc |-> c.setc, fio |-> c.fio, hard |-> (c.xerr = "hard"),
     late |-> c.late, cb |-> c.cb, qs |-> c.qs]

\* The same for a call that is one step: Close, or a call of kind "shutdown"
\* (CloseRead, CloseWrite), "sockopt" (SetNoDelay, ...) or "deadline".
Stepped(op, err, ac) ==
    [op |-> op, len |-> 0, n |-> 0, err |-> err, ac |-> ac, ent |-> FALSE,
     cx |-> 0, setc |-> FALSE, fio |-> FALSE, hard |-> FALSE, late |-> FALSE,
     cb |-> 0, qs |-> FALSE]

\* (mutant) a dial that has already connected the handle it returns.
NewConnEager == [connected |-> TRUE, fdOwner |-> "conn"]

\* The tfoConn value dialTFO returns, lines 129-137: connected is the zero
\* value, fd the descriptor socket() created.
NewConn == [connected |-> FALSE, fdOwner |-> "conn"]

ConnInit ==
    /\ th = [t \in Threads |-> NoCall]
    /\ mu = 0
    /\ connected = NewConn.connected
    /\ closed = FALSE
    /\ fdOwner = NewConn.fdOwner
    /\ foreign = FALSE
    /\ dl = [r |-> "none", w |-> "none", tied |-> FALSE]
    /\ connectCalls = 0
    /\ failConnects = 0
    /\ unacked = <<>>
    /\ streamOk = TRUE
    /\ ret = Stepped("none", "nil", FALSE)
    /\ ncalls = 0
    /\ ioStarted = FALSE
    /\ sockopt = [asked |-> FALSE, on |-> FALSE]

\* ------------------------------------------------------------ c.connect(b)
\* connect, lines 67-73: SyscallConn on a non-nil *os.File does not fail
\* (closed or not), done starts false, n is the zero value.
EnterConnect(c, payload) ==
    [c EXCEPT !.ent = TRUE, !.b = payload, !.done = FALSE, !.cn = 0]

\* bsd.Connectx(c.fd, 0, nil, c.rsockaddr, b): the bytes it queued and its error.
\* An in-progress result may already have queued bytes; a hard failure sends none.
ConnectxOutcomes(b) ==
    [sentN : 0..Len(b), err : {"nil", "EINPROGRESS"}]
        \cup {[sentN |-> 0, err |-> "hard"]}

\* (mutant) a closure without the done flag: every invocation issues Connectx.
CallbackReissuing(loc, x) ==
    [loc |-> [loc EXCEPT !.cn = x.sentN, !.done = TRUE, !.xerr = x.err,
                         !.cx = loc.cx + 1, !.cb = loc.cb + 1],
     rv |-> x.err # "EINPROGRESS",
     bytes |-> Prefix(loc.b, x.sentN)]

\* The closure handed to rawConn.Write, lines 74-87, with Connectx's outcome x:
\* the locals after the call, the closure's return value rv, and the bytes
\* Connectx queued. `bytesSent, err :=` declares a new err inside the closure;
\* connect's own err is not assigned.
Callback(loc, x) ==
    IF loc.done
    THEN [loc |-> [loc EXCEPT !.cb = loc.cb + 1], rv |-> TRUE, bytes |-> <<>>]
    ELSE [loc |-> [loc EXCEPT !.cn = x.sentN, !.done = TRUE, !.xerr = x.err,
                              !.cx = loc.cx + 1, !.cb = loc.cb + 1],
          rv |-> x.err # "EINPROGRESS",
          bytes |-> Prefix(loc.b, x.sentN)]

\* (mutant) rawConn.Write that runs the closure on a closed file too.
RawWritePassOnClosed(loc) ==
    IF dl.w = "passed" /\ ~closed
    THEN {[loc |-> [loc EXCEPT !.perr = "timeout"], rv |-> TRUE, bytes |-> <<>>]}
    ELSE {Callback(loc, x) : x \in ConnectxOutcomes(loc.b)}

\* rawConn.Write(f), line 74, one pass: it fails without calling the closure
\* when the file is closed or the WRITE deadline of the file has passed (the
\* read deadline plays no part in it); otherwise the closure runs, and a false
\* return makes the goroutine wait for writability (rv FALSE). The first pass
\* is the call itself, the later one the wake-up.
RawWritePass(loc) ==
    IF closed
    THEN {[loc |-> [loc EXCEPT !.perr = "closed"], rv |-> TRUE, bytes |-> <<>>]}
    ELSE IF dl.w = "passed"
    THEN {[loc |-> [loc EXCEPT !.perr = "timeout"], rv |-> TRUE, bytes |-> <<>>]}
    ELSE {Callback(loc, x) : x \in ConnectxOutcomes(loc.b)}

\* c.getSocketError("connectx") and c.getLocalAddr(): each a syscall that
\* succeeds or fails.
GetSocketErrorOutcomes == {"nil", "sockerr"}
GetLocalAddrOutcomes == {"nil", "laddrerr"}

\* connect, lines 89-104: what it returns given the locals after rawConn.Write,
\* the socket-error query se and the local-address lookup le. The err tested
\* at line 89 is still the nil left by SyscallConn. qs: getSocketError was
\* called on the way.
ConnectResult(loc, se, le) ==
    LET err == "nil" IN
    IF err # "nil" THEN [n |-> 0, err |-> err, qs |-> FALSE]
    ELSE IF loc.perr # "nil" THEN [n |-> 0, err |-> loc.perr, qs |-> FALSE]
    ELSE IF se # "nil" THEN [n |-> loc.cn, err |-> se, qs |-> TRUE]
    ELSE [n |-> loc.cn, err |-> le, qs |-> TRUE]

\* Every way connect can return once rawConn.Write is over.
ConnectResults(loc) ==
    {ConnectResult(loc, se, le) :
        se \in GetSocketErrorOutcomes, le \in GetLocalAddrOutcomes}

\* The caller is told n bytes of buf went out: they must be the oldest bytes
\* handed to the kernel and not yet accounted for.
Account(u, buf, n) ==
    IF Len(u) >= n /\ Prefix(u, n) = Prefix(buf, n)
    THEN /\ unacked' = SubSeq(u, n + 1, Len(u))
         /\ UNCHANGED streamOk
    ELSE /\ streamOk' = FALSE
         /\ unacked' = u

\* A call returns (n, err): the goroutine is free again.
Return(t, c, n, err) ==
    /\ th' = [th EXCEPT ![t] = NoCall]
    /\ ret' = Returned(c, n, err)

\* (mutant) Read that goes on to the descriptor whatever connect returned.
ReadAfterConnectIgnoringErr(t, loc, r, u) ==
    /\ failConnects' = failConnects + (IF r.err = "nil" THEN 0 ELSE 1)
    /\ connected' = IF r.err = "nil" THEN TRUE ELSE connected
    /\ th' = [th EXCEPT ![t] = [loc EXCEPT !.pc = "fio", !.setc = (r.err = "nil")]]
    /\ UNCHANGED ret
    /\ mu' = 0
    /\ unacked' = u
    /\ UNCHANGED streamOk

\* (mutant) Read that returns connect's error without Unlock.
ReadAfterConnectNoUnlockOnError(t, loc, r, u) ==
    /\ failConnects' = failConnects + (IF r.err = "nil" THEN 0 ELSE 1)
    /\ IF r.err # "nil"
       THEN /\ Return(t, loc, 0, r.err)
            /\ UNCHANGED connected
            /\ mu' = t
       ELSE /\ connected' = TRUE
            /\ th' = [th EXCEPT ![t] = [loc EXCEPT !.pc = "fio", !.setc = TRUE]]
            /\ UNCHANGED ret
            /\ mu' = 0
    /\ unacked' = u
    /\ UNCHANGED streamOk

\* Read / ReadFrom once connect(nil) returned r, lines 143-150: on an error
\* Unlock and return 0 and the error; otherwise set connected, Unlock and go on
\* to the descriptor. u: the bytes in flight.
ReadAfterConnect(t, loc, r, u) ==
    /\ failConnects' = failConnects + (IF r.err = "nil" THEN 0 ELSE 1)
    /\ IF r.err # "nil"
       THEN /\ Return(t, loc, 0, r.err)
            /\ UNCHANGED connected
       ELSE /\ connected' = TRUE
            /\ th' = [th EXCEPT ![t] = [loc EXCEPT !.pc = "fio", !.setc = TRUE]]
            /\ UNCHANGED ret
    /\ mu' = 0
    /\ unacked' = u
    /\ UNCHANGED streamOk

\* (mutant) Write that reports the whole buffer written after the handshake.
WriteAfterConnectFullLen(t, loc, r, u) ==
    /\ failConnects' = failConnects + (IF r.err = "nil" THEN 0 ELSE 1)
    /\ connected' = IF r.err = "nil" THEN TRUE ELSE connected
    /\ Return(t, [loc EXCEPT !.setc = (r.err = "nil")],
              IF r.err = "nil" THEN loc.len ELSE r.n, r.err)
    /\ mu' = 0
    /\ Account(u, Buf(t, loc.len), IF r.err = "nil" THEN loc.len ELSE r.n)

\* (mutant) Write that sets connected whatever connect returned.
WriteAfterConnectAlwaysConnected(t, loc, r, u) ==
    /\ failConnects' = failConnects + (IF r.err = "nil" THEN 0 ELSE 1)
    /\ connected' = TRUE
    /\ Return(t, [loc EXCEPT !.setc = TRUE], r.n, r.err)
    /\ mu' = 0
    /\ Account(u, Buf(t, loc.len), r.n)

\* Write once connect(b) returned r, lines 178-183: set connected if err is
\* nil, Unlock, return connect's n and err.
WriteAfterConnect(t, loc, r, u) ==
    /\ failConnects' = failConnects + (IF r.err = "nil" THEN 0 ELSE 1)
    /\ connected' = IF r.err = "nil" THEN TRUE ELSE connected
    /\ Return(t, [loc EXCEPT !.setc = (r.err = "nil")], r.n, r.err)
    /\ mu' = 0
    /\ Account(u, Buf(t, loc.len), r.n)

AfterConnect(t, loc, r, u) ==
    IF loc.op = "Write"
    THEN WriteAfterConnect(t, loc, r, u)
    ELSE ReadAfterConnect(t, loc, r, u)

\* One pass o of rawConn.Write inside connect, and what follows it: the wait
\* for writability with the mutex held, or the rest of connect and of the
\* calling method.
ConnectStep(t, o) ==
    IF ~o.rv
    THEN /\ mu' = t
         /\ th' = [th EXCEPT ![t] = [o.loc EXCEPT !.pc = "waitwrite"]]
         /\ unacked' = unacked \o o.bytes
         /\ UNCHANGED <<connected, failConnects, streamOk, ret>>
    ELSE \E r \in ConnectResults(o.loc) :
            AfterConnect(t, [o.loc EXCEPT !.qs = r.qs], r, unacked \o o.bytes)

\* (mutant) Read that keeps c.mu while it reads from a connected handle.
ReadLockedKeepingMutex(t, c) ==
    IF ~connected
    THEN /\ connectCalls' = connectCalls + 1
         /\ \E o \in RawWritePass(EnterConnect(c, <<>>)) : ConnectStep(t, o)
    ELSE /\ mu' = t
         /\ th' = [th EXCEPT ![t] = [c EXCEPT !.pc = "fio"]]
         /\ UNCHANGED <<connected, connectCalls, failConnects, unacked,
                        streamOk, ret>>

\* Read / ReadFrom with c.mu just acquired, lines 142-150 and 159-167: if
\* !connected, connect(nil) up to its first blocking point; when already
\* connected, Unlock and go on to the descriptor. c: the call's record.
ReadLocked(t, c) ==
    IF ~connected
    THEN /\ connectCalls' = connectCalls + 1
         /\ \E o \in RawWritePass(EnterConnect(c, <<>>)) : ConnectStep(t, o)
    ELSE /\ mu' = 0
         /\ th' = [th EXCEPT ![t] = [c EXCEPT !.pc = "fio"]]
         /\ UNCHANGED <<connected, connectCalls, failConnects, unacked,
                        streamOk, ret>>

\* Write with c.mu just acquired, lines 173-183: if connected, Unlock and write
\* to the descriptor; otherwise connect(b) with the caller's buffer, up to its
\* first blocking point.
WriteLocked(t, c) ==
    IF connected
    THEN /\ mu' = 0
         /\ th' = [th EXCEPT ![t] = [c EXCEPT !.pc = "fio"]]
         /\ UNCHANGED <<connected, connectCalls, failConnects, unacked,
                        streamOk, ret>>
    ELSE /\ connectCalls' = connectCalls + 1
         /\ \E o \in RawWritePass(EnterConnect(c, Buf(t, c.len))) : ConnectStep(t, o)

Locked(t, c) ==
    IF c.op = "Write" THEN WriteLocked(t, c) ELSE ReadLocked(t, c)

\* ------------------------------------------------- a caller starts a call
\* (mutant) Read / ReadFrom / Write that do not take c.mu.
CallWithoutMutex(t) ==
    /\ th[t].pc = "idle"
    /\ UNCHANGED <<dial, lst, ka>>
    /\ \A u \in Threads : u < t => th[u].pc # "idle"
    /\ ncalls < MaxCalls
    /\ ncalls' = ncalls + 1
    /\ ioStarted' = TRUE
    /\ \E op \in IOOps :
       \E len \in (IF op = "Read" THEN {0} ELSE 0..MaxLen) :
          Locked(t, [NoCall EXCEPT !.op = op, !.len = len, !.ac = closed])
    /\ UNCHANGED <<sockopt, closed, fdOwner, foreign, dl>>

\* A goroutine calls Read(b), ReadFrom(r) or Write(b), lines 140-141, 157-158,
\* 171-172: c.mu.Lock() is its first statement. With the mutex free the call
\* goes on at once; otherwise the goroutine blocks in Lock. ac records whether
\* Close had already returned when the call was made. Goroutines carry nothing
\* from one call to the next, so the free one with the least index makes it.
Call(t) ==
    /\ th[t].pc = "idle"
    /\ UNCHANGED <<dial, lst, ka>>
    /\ \A u \in Threads : u < t => th[u].pc # "idle"
    /\ ncalls < MaxCalls
    /\ ncalls' = ncalls + 1
    /\ ioStarted' = TRUE
    /\ \E op \in IOOps :
       \E len \in (IF op = "Read" THEN {0} ELSE 0..MaxLen) :
          LET c == [NoCall EXCEPT !.op = op, !.len = len, !.ac = closed] IN
          IF mu # 0
          THEN /\ th' = [th EXCEPT ![t] = [c EXCEPT !.pc = "lock", !.w = TRUE]]
               /\ UNCHANGED <<mu, connected, connectCalls, failConnects, unacked,
                              streamOk, ret>>
          ELSE Locked(t, c)
    /\ UNCHANGED <<sockopt, closed, fdOwner, foreign, dl>>

\* c.mu.Lock() returns in a goroutine that was blocked in it.
Acquire(t) ==
    /\ th[t].pc = "lock"
    /\ UNCHANGED <<dial, lst, ka>>
    /\ mu = 0
    /\ Locked(t, th[t])
    /\ UNCHANGED <<sockopt, closed, fdOwner, foreign, dl, ncalls, ioStarted>>

\* The deadline of a call's own direction has passed: the read deadline for
\* Read, the write deadline for Write and for ReadFrom, which writes the
\* reader's content to the socket.
OwnDeadlinePassed(op) ==
    IF op = "Read" THEN dl.r = "passed" ELSE dl.w = "passed"

\* rawConn.Write after the closure returned false: the goroutine, still
\* holding c.mu, is woken when the socket is writable, the file is closed or
\* the write deadline passes; rawConn.Write makes its next pass (the closure
\* finds done set and returns true at once) and connect and the calling method
\* run to their end.
WaitWrite(t) ==
    /\ th[t].pc = "waitwrite"
    /\ UNCHANGED <<dial, lst, ka>>
    /\ \E o \in RawWritePass([th[t] EXCEPT !.late = OwnDeadlinePassed(th[t].op)]) :
          ConnectStep(t, o)
    /\ UNCHANGED <<sockopt, closed, fdOwner, foreign, dl, connectCalls, ncalls, ioStarted>>

\* --------------------------------------------------- descriptor I/O on c.f
\* c.f.Read(b), line 151: fails on a closed file, times out once the read
\* deadline has passed, otherwise returns when the peer's data (here one byte)
\* or an error is there; until then the caller stays blocked in it.
FRead(t) ==
    /\ th[t].pc = "fio"
    /\ UNCHANGED <<dial, lst, ka>>
    /\ th[t].op = "Read"
    /\ \/ /\ closed
          /\ Return(t, [th[t] EXCEPT !.fio = TRUE], 0, "closed")
       \/ /\ ~closed
          /\ \E e \in (IF dl.r = "passed" THEN {"timeout"} ELSE {"nil", "ioerr"}) :
               Return(t, [th[t] EXCEPT !.fio = TRUE], IF e = "nil" THEN 1 ELSE 0, e)
    /\ UNCHANGED <<sockopt, mu, connected, closed, fdOwner, foreign, dl, connectCalls,
                   failConnects, unacked, streamOk, ncalls, ioStarted>>

\* A write of the call's buffer to the descriptor: k bytes go out, and the
\* call returns (k, e).
FileWrite(t, k, e) ==
    /\ Return(t, [th[t] EXCEPT !.fio = TRUE], k, e)
    /\ Account(unacked \o Prefix(Buf(t, th[t].len), k), Buf(t, th[t].len), k)

\* os.File.Write / ReadFrom on an open file: a timeout once the write
\* deadline has passed; otherwise everything with no error, or fewer bytes
\* with an error.
FileWriteOutcomes(len) ==
    IF dl.w = "passed"
    THEN {<<0, "timeout">>}
    ELSE {<<len, "nil">>} \cup {<<k, "ioerr">> : k \in 0..(len - 1)}

\* c.f.ReadFrom(r), line 168: copies the reader's content to the descriptor.
FReadFrom(t) ==
    /\ th[t].pc = "fio"
    /\ UNCHANGED <<dial, lst, ka>>
    /\ th[t].op = "ReadFrom"
    /\ \/ /\ closed
          /\ FileWrite(t, 0, "closed")
       \/ /\ ~closed
          /\ \E o \in FileWriteOutcomes(th[t].len) : FileWrite(t, o[1], o[2])
    /\ UNCHANGED <<sockopt, mu, connected, closed, fdOwner, foreign, dl, connectCalls,
                   failConnects, ncalls, ioStarted>>

\* c.f.Write(b), line 175.
FWrite(t) ==
    /\ th[t].pc = "fio"
    /\ UNCHANGED <<dial, lst, ka>>
    /\ th[t].op = "Write"
    /\ \/ /\ closed
          /\ FileWrite(t, 0, "closed")
       \/ /\ ~closed
          /\ \E o \in FileWriteOutcomes(th[t].len) : FileWrite(t, o[1], o[2])
    /\ UNCHANGED <<sockopt, mu, connected, closed, fdOwner, foreign, dl, connectCalls,
                   failConnects, ncalls, ioStarted>>

\* ------------------------------------------------------------------ Close
\* Close, lines 186-191: c.f.Close() closes the descriptor (the number becomes
\* free in the OS table) and wakes blocked I/O; a second Close reports the
\* file already closed. connected and mu are not touched.
Close ==
    /\ ncalls < MaxCalls
    /\ UNCHANGED <<dial, lst, ka>>
    /\ ncalls' = ncalls + 1
    /\ IF closed
       THEN /\ ret' = Stepped("Close", "closed", TRUE)
            /\ UNCHANGED <<closed, fdOwner>>
       ELSE /\ closed' = TRUE
            /\ fdOwner' = "free"
            /\ ret' = Stepped("Close", "nil", FALSE)
    /\ UNCHANGED <<sockopt, th, mu, connected, foreign, dl, connectCalls, failConnects,
                   unacked, streamOk, ioStarted>>

\* The process opens another socket: the OS hands out the lowest free
\* descriptor number, which may be the one the closed handle still stores.
OtherOpen ==
    /\ fdOwner = "free"
    /\ UNCHANGED <<dial, lst, ka>>
    /\ fdOwner' = "other"
    /\ UNCHANGED <<sockopt, th, mu, connected, closed, foreign, dl, connectCalls,
                   failConnects, unacked, streamOk, ret, ncalls, ioStarted>>

\* ------------------------------------------- half-close and option setters
ShutdownOps == {"CloseRead", "CloseWrite"}
SockoptOps == {"SetNoDelay", "SetKeepAlive", "SetKeepAlivePeriod", "SetLinger"}
DeadlineOps == {"SetDeadline", "SetReadDeadline", "SetWriteDeadline"}

\* (mutant) a setter that first connects a handle that is not connected yet.
RawFdCallConnecting(kind) ==
    /\ ncalls < MaxCalls
    /\ UNCHANGED <<dial, lst, ka>>
    /\ ncalls' = ncalls + 1
    /\ fdOwner = "conn"
    /\ mu = 0
    /\ ret' = Stepped(kind, "nil", closed)
    /\ sockopt' = IF kind = "sockopt" THEN [asked |-> TRUE, on |-> TRUE] ELSE sockopt
    /\ connected' = TRUE
    /\ connectCalls' = IF connected THEN connectCalls ELSE connectCalls + 1
    /\ UNCHANGED <<th, mu, closed, fdOwner, foreign, dl,
                   failConnects, unacked, streamOk, ioStarted>>

\* unix.Shutdown(c.fd, how) / unix.SetsockoptInt(c.fd, ...): a syscall on the
\* bare descriptor number stored in the handle. It acts on whatever socket the
\* number names now; EBADF when the number names nothing. A setsockopt that
\* succeeds on the handle's own socket leaves the option set on it.
RawFdCall(kind) ==
    /\ ncalls < MaxCalls
    /\ UNCHANGED <<dial, lst, ka>>
    /\ ncalls' = ncalls + 1
    /\ \/ /\ fdOwner = "conn"
          /\ \E e \in {"nil", "oserr"} :
                /\ ret' = Stepped(kind, e, closed)
                /\ sockopt' = IF kind = "sockopt" /\ e = "nil"
                              THEN [asked |-> TRUE, on |-> TRUE] ELSE sockopt
          /\ UNCHANGED foreign
       \/ /\ fdOwner = "free"
          /\ ret' = Stepped(kind, "ebadf", closed)
          /\ UNCHANGED <<foreign, sockopt>>
       \/ /\ fdOwner = "other"
          /\ foreign' = TRUE
          /\ ret' = Stepped(kind, "nil", closed)
          /\ UNCHANGED sockopt
    /\ UNCHANGED <<th, mu, connected, closed, fdOwner, dl, connectCalls,
                   failConnects, unacked, streamOk, ioStarted>>

\* CloseRead / CloseWrite, lines 193-205.
CloseHalf == \E op \in ShutdownOps : RawFdCall("shutdown")

\* SetNoDelay, SetKeepAlive, SetKeepAlivePeriod, SetLinger, lines 236-270.
SetSockopt == \E op \in SockoptOps : RawFdCall("sockopt")

\* SetDeadline / SetReadDeadline / SetWriteDeadline, lines 215-234: they go
\* through c.f, which refuses once closed. on = a non-zero time, still ahead;
\* SetDeadline gives both directions the same instant.
SetDeadlines ==
    /\ ncalls < MaxCalls
    /\ UNCHANGED <<dial, lst, ka>>
    /\ ncalls' = ncalls + 1
    /\ \E op \in DeadlineOps, on \in BOOLEAN :
         IF closed
         THEN /\ ret' = Stepped("deadline", "closed", TRUE)
              /\ UNCHANGED dl
         ELSE /\ ret' = Stepped("deadline", "nil", FALSE)
              /\ LET v == IF on THEN "set" ELSE "none" IN
                 dl' = [r |-> IF op = "SetWriteDeadline" THEN dl.r ELSE v,
                        w |-> IF op = "SetReadDeadline" THEN dl.w ELSE v,
                        tied |-> (op = "SetDeadline" /\ on)]
    /\ UNCHANGED <<sockopt, th, mu, connected, closed, fdOwner, foreign, connectCalls,
                   failConnects, unacked, streamOk, ioStarted>>

\* Time passes a deadline that was set: the runtime's timer fires. The two
\* directions set by one SetDeadline pass together.
DeadlinePasses ==
    /\ ~closed
    /\ UNCHANGED <<dial, lst, ka>>
    /\ \/ /\ dl.tied
          /\ dl.r = "set"
          /\ dl' = [dl EXCEPT !.r = "passed", !.w = "passed"]
       \/ /\ ~dl.tied
          /\ dl.r = "set"
          /\ dl' = [dl EXCEPT !.r = "passed"]
       \/ /\ ~dl.tied
          /\ dl.w = "set"
          /\ dl' = [dl EXCEPT !.w = "passed"]
    /\ UNCHANGED <<sockopt, th, mu, connected, closed, fdOwner, foreign, connectCalls,
                   failConnects, unacked, streamOk, ret, ncalls, ioStarted>>

\* ------------------------------------------------------------------- spec
Next ==
    \/ \E t \in Threads : Call(t)
    \/ \E t \in Threads : Acquire(t)
    \/ \E t \in Threads : WaitWrite(t)
    \/ \E t \in Threads : FRead(t)
    \/ \E t \in Threads : FReadFrom(t)
    \/ \E t \in Threads : FWrite(t)
    \/ Close
    \/ OtherOpen
    \/ CloseHalf
    \/ SetSockopt
    \/ SetDeadlines
    \/ DeadlinePasses


\* =========================================================== entry points
\* ------------------------------------------------------------- addresses
\* A net.IP is a byte slice: 4 bytes (IPv4), or 16 bytes (IPv6, or IPv4 in its
\* IPv4-mapped form ::ffff:a.b.c.d).
Zeros(n) == [i \in 1..n |-> 0]
IP4 == <<127, 0, 0, 1>>
IP4Mapped == Zeros(10) \o <<255, 255>> \o IP4
IP6 == Zeros(15) \o <<1>>
IPs == {IP4, IP4Mapped, IP6}
Ports == {0, 443}
Networks == {"tcp", "tcp4", "tcp6"}

\* *net.TCPAddr; nil is the absent local address.
NilAddr == [nil |-> TRUE, ip |-> <<>>, port |-> 0]
TCPAddrs == [nil : {FALSE}, ip : IPs, port : Ports]

\* net.IP.To4: the 4-byte form of an IPv4 address, <<>> (nil) for any other.
To4(ip) ==
    IF Len(ip) = 4 THEN ip
    ELSE IF /\ Len(ip) = 16
            /\ SubSeq(ip, 1, 10) = Zeros(10)
            /\ ip[11] = 255
            /\ ip[12] = 255
         THEN SubSeq(ip, 13, 16)
         ELSE <<>>

Is4(a) == To4(a.ip) # <<>>

\* *(*[n]byte)(ip): the first n bytes of the slice.
ArrayOf(ip, n) == SubSeq(ip, 1, n)

\* &unix.SockaddrInet4{Port, Addr} / &unix.SockaddrInet6{Port, Addr}.
Sockaddr4(a) == [family |-> "AF_INET", port |-> a.port, addr |-> ArrayOf(a.ip, 4)]
Sockaddr6(a) == [family |-> "AF_INET6", port |-> a.port, addr |-> ArrayOf(a.ip, 16)]
ZeroSockaddr4 == [family |-> "AF_INET", port |-> 0, addr |-> Zeros(4)]
ZeroSockaddr6 == [family |-> "AF_INET6", port |-> 0, addr |-> Zeros(16)]
NoSockaddr == [family |-> "none", port |-> 0, addr |-> <<>>]

\* ---------------------------------------------------------------- dialTFO
NoDial ==
    [pc |-> "none", network |-> "tcp", laddr |-> NilAddr, raddr |-> NilAddr,
     domain |-> "none", lsockaddr |-> NoSockaddr, rsockaddr |-> NoSockaddr,
     fd |-> "none", sys |-> <<>>, res |-> "none"]

DialArgs(network, laddr, raddr) ==
    [NoDial EXCEPT !.pc = "translate", !.network = network, !.laddr = laddr,
                   !.raddr = raddr]

\* (mutant) a dialTFO that does not compare the two families.
DialTranslateUnchecked ==
    /\ dial.pc = "translate"
    /\ LET raddrIs4 == Is4(dial.raddr)
           laddrIs4 == Is4(dial.laddr)
       IN dial' = [dial EXCEPT
              !.pc = "socket",
              !.domain = IF raddrIs4 THEN "AF_INET" ELSE "AF_INET6",
              !.rsockaddr = IF raddrIs4 THEN Sockaddr4(dial.raddr)
                            ELSE Sockaddr6(dial.raddr),
              !.lsockaddr = IF ~dial.laddr.nil
                            THEN (IF laddrIs4 THEN Sockaddr4(dial.laddr)
                                  ELSE Sockaddr6(dial.laddr))
                            ELSE IF raddrIs4 THEN ZeroSockaddr4 ELSE ZeroSockaddr6]
    /\ UNCHANGED <<connVars, lst, ka>>

\* dialTFO, lines 59-97: the family comes from raddr; a local address of the
\* other family ends the call with ErrMismatchedAddressFamily; without a local
\* address the local sockaddr is the zero value of the family.
DialTranslate ==
    /\ dial.pc = "translate"
    /\ LET raddrIs4 == Is4(dial.raddr)
           laddrIs4 == Is4(dial.laddr)
       IN IF ~dial.laddr.nil /\ laddrIs4 # raddrIs4
          THEN dial' = [dial EXCEPT
                 !.pc = "done",
                 !.domain = IF raddrIs4 THEN "AF_INET" ELSE "AF_INET6",
                 !.rsockaddr = IF raddrIs4 THEN Sockaddr4(dial.raddr)
                               ELSE Sockaddr6(dial.raddr),
                 !.res = "ErrMismatchedAddressFamily"]
          ELSE dial' = [dial EXCEPT
                 !.pc = "socket",
                 !.domain = IF raddrIs4 THEN "AF_INET" ELSE "AF_INET6",
                 !.rsockaddr = IF raddrIs4 THEN Sockaddr4(dial.raddr)
                               ELSE Sockaddr6(dial.raddr),
                 !.lsockaddr = IF ~dial.laddr.nil
                               THEN (IF laddrIs4 THEN Sockaddr4(dial.laddr)
                                     ELSE Sockaddr6(dial.laddr))
                               ELSE IF raddrIs4 THEN ZeroSockaddr4 ELSE ZeroSockaddr6]
    /\ UNCHANGED <<connVars, lst, ka>>

\* socket(domain), tfo_darwin.go lines 53-65, and dialTFO lines 99-102:
\* unix.Socket fails and nothing was created; or SetNonblock fails and the new
\* descriptor is closed again; or the descriptor is there, non-blocking.
DialSocket ==
    /\ dial.pc = "socket"
    /\ \/ dial' = [dial EXCEPT !.pc = "done", !.res = "socket",
                               !.sys = Append(dial.sys, "socket!")]
       \/ dial' = [dial EXCEPT !.pc = "done", !.res = "socket", !.fd = "closed",
                               !.sys = dial.sys \o <<"socket", "setnonblock!", "close">>]
       \/ dial' = [dial EXCEPT !.pc = "options", !.fd = "open",
                               !.sys = dial.sys \o <<"socket", "setnonblock">>]
    /\ UNCHANGED <<connVars, lst, ka>>

\* dialTFO, lines 104-119: setIPv6Only sets IPV6_V6ONLY on an AF_INET6 socket,
\* to 1 for network "tcp6" and to 0 otherwise, and reports no error;
\* setNoDelay may fail, and dialTFO returns the error; SetTFODialer does
\* nothing on darwin.
DialOptions ==
    /\ dial.pc = "options"
    /\ LET v6only == IF dial.network = "tcp6" THEN "v6only=1" ELSE "v6only=0"
           s1 == IF dial.domain = "AF_INET6"
                 THEN Append(dial.sys, v6only) ELSE dial.sys
       IN \/ dial' = [dial EXCEPT !.pc = "done", !.res = "setsockopt",
                                  !.sys = Append(s1, "nodelay!")]
          \/ dial' = [dial EXCEPT !.pc = "bind", !.sys = Append(s1, "nodelay")]
    /\ UNCHANGED <<connVars, lst, ka>>

\* dialTFO, lines 121-138: bind when a local address was given, which may
\* fail, and dialTFO returns the error; otherwise wrap the descriptor in an
\* os.File and return the handle.
DialBind ==
    /\ dial.pc = "bind"
    /\ \/ /\ ~dial.laddr.nil
          /\ dial' = [dial EXCEPT !.pc = "done", !.res = "bind",
                                  !.sys = Append(dial.sys, "bind!")]
       \/ /\ ~dial.laddr.nil
          /\ dial' = [dial EXCEPT !.pc = "done", !.res = "ok",
                                  !.sys = Append(dial.sys, "bind")]
       \/ /\ dial.laddr.nil
          /\ dial' = [dial EXCEPT !.pc = "done", !.res = "ok"]
    /\ UNCHANGED <<connVars, lst, ka>>

\* -------------------------------------------------------------- listenTFO
NoListen ==
    [pc |-> "none", network |-> "tcp", port |-> 0, ln |-> "none",
     tfo |-> 0, sys |-> <<>>, retLn |-> FALSE, err |-> "nil"]

ListenArgs(network, port) ==
    [NoListen EXCEPT !.pc = "listen", !.network = network, !.port = port]

\* (mutant) a listen that marks the socket TFO-capable between bind and listen.
ListenListenTFOFirst ==
    /\ lst.pc = "listen"
    /\ \/ lst' = [lst EXCEPT !.pc = "done", !.err = "listen",
                             !.sys = Append(lst.sys, "listen!")]
       \/ lst' = [lst EXCEPT !.pc = "rawconn", !.ln = "open", !.tfo = lst.tfo + 1,
                             !.sys = lst.sys \o <<"bind", "fastopen", "listen">>]
    /\ UNCHANGED <<connVars, dial, ka>>

\* listenTFO, lines 18-21: lc.ListenConfig.Listen creates, binds and listens,
\* or fails, and its error is returned with no listener.
ListenListen ==
    /\ lst.pc = "listen"
    /\ \/ lst' = [lst EXCEPT !.pc = "done", !.err = "listen",
                             !.sys = Append(lst.sys, "listen!")]
       \/ lst' = [lst EXCEPT !.pc = "rawconn", !.ln = "open",
                             !.sys = lst.sys \o <<"bind", "listen">>]
    /\ UNCHANGED <<connVars, dial, ka>>

\* listenTFO, lines 25-29: SyscallConn; on an error the listener is closed and
\* the error returned.
ListenRawConn ==
    /\ lst.pc = "rawconn"
    /\ \/ lst' = [lst EXCEPT !.pc = "done", !.err = "syscallconn", !.ln = "closed",
                             !.sys = Append(lst.sys, "close")]
       \/ lst' = [lst EXCEPT !.pc = "control"]
    /\ UNCHANGED <<connVars, dial, ka>>

\* listenTFO, lines 30-37, and SetTFOListener, lines 13-15: rawConn.Control
\* fails without running the function, and the listener is closed; or it runs
\* it, TCP_FASTOPEN is set on the listening socket or the setsockopt fails
\* into innerErr, and listenTFO returns ln and innerErr.
ListenControl ==
    /\ lst.pc = "control"
    /\ \/ lst' = [lst EXCEPT !.pc = "done", !.err = "control", !.ln = "closed",
                             !.sys = Append(lst.sys, "close")]
       \/ lst' = [lst EXCEPT !.pc = "done", !.retLn = TRUE, !.err = "nil",
                             !.tfo = lst.tfo + 1,
                             !.sys = Append(lst.sys, "fastopen")]
       \/ lst' = [lst EXCEPT !.pc = "done", !.retLn = TRUE, !.err = "setsockopt",
                             !.sys = Append(lst.sys, "fastopen!")]
    /\ UNCHANGED <<connVars, dial, ka>>

\* ------------------------------------------------------ setKeepAlivePeriod
\* time.Second, with durations counted in milliseconds.
Second == 1000
Durations == 0..MaxDuration

\* roundDurationUp(d, to): d in units of to, rounded up.
RoundDurationUp(d, to) == (d + to - 1) \div to

NoKeepAlive == [pc |-> "none", d |-> 0, secs |-> 0, sys |-> <<>>, err |-> "nil"]

KeepAliveArgs(d) == [NoKeepAlive EXCEPT !.pc = "round", !.d = d]

\* (mutant) seconds by truncation.
KaRoundTruncating ==
    /\ ka.pc = "round"
    /\ ka' = [ka EXCEPT !.pc = "interval", !.secs = ka.d \div Second]
    /\ UNCHANGED <<connVars, dial, lst>>

\* setKeepAlivePeriod, line 46: secs := int(roundDurationUp(d, time.Second)).
KaRound ==
    /\ ka.pc = "round"
    /\ ka' = [ka EXCEPT !.pc = "interval", !.secs = RoundDurationUp(ka.d, Second)]
    /\ UNCHANGED <<connVars, dial, lst>>

\* setKeepAlivePeriod, lines 47-49: TCP_KEEPINTVL is set to secs; its error
\* ends the call.
KaInterval ==
    /\ ka.pc = "interval"
    /\ \/ ka' = [ka EXCEPT !.pc = "done", !.err = "setsockopt",
                            !.sys = Append(ka.sys, <<"TCP_KEEPINTVL", ka.secs, FALSE>>)]
       \/ ka' = [ka EXCEPT !.pc = "idle",
                            !.sys = Append(ka.sys, <<"TCP_KEEPINTVL", ka.secs, TRUE>>)]
    /\ UNCHANGED <<connVars, dial, lst>>

\* setKeepAlivePeriod, line 50: TCP_KEEPALIVE (the idle time) is set to secs
\* and its result returned.
KaIdle ==
    /\ ka.pc = "idle"
    /\ \/ ka' = [ka EXCEPT !.pc = "done", !.err = "setsockopt",
                            !.sys = Append(ka.sys, <<"TCP_KEEPALIVE", ka.secs, FALSE>>)]
       \/ ka' = [ka EXCEPT !.pc = "done",
                            !.sys = Append(ka.sys, <<"TCP_KEEPALIVE", ka.secs, TRUE>>)]
    /\ UNCHANGED <<connVars, dial, lst>>

\* ------------------------------------------------------------------- spec
\* The handle in use: dialTFO has returned it, no entry point is running.
Init ==
    /\ ConnInit
    /\ dial = NoDial
    /\ lst = NoListen
    /\ ka = NoKeepAlive

Spec == Init /\ [][Next]_vars

\* The same with the scheduling the claims about progress rely on: a connect
\* in progress comes to an end (the socket becomes writable or fails, or the
\* wait is cut short), and a goroutine blocked in c.mu.Lock() gets the mutex
\* once it is free and stays free (sync.Mutex wakes a waiter on Unlock).
SpecLive ==
    /\ Init
    /\ [][Next]_vars
    /\ \A t \in Threads : WF_vars(WaitWrite(t)) /\ WF_vars(Acquire(t))

\* The entry points: one dialTFO and one listenTFO call with any arguments.
EntryInit ==
    /\ ConnInit
    /\ \E network \in Networks, raddr \in TCPAddrs, laddr \in TCPAddrs \cup {NilAddr} :
          dial = DialArgs(network, laddr, raddr)
    /\ \E network \in Networks, port \in Ports : lst = ListenArgs(network, port)
    /\ ka = NoKeepAlive

EntryNext ==
    \/ DialTranslate
    \/ DialSocket
    \/ DialOptions
    \/ DialBind
    \/ ListenListen
    \/ ListenRawConn
    \/ ListenControl

SpecEntry == EntryInit /\ [][EntryNext]_vars

\* One setKeepAlivePeriod call with any duration.
KeepAliveInit ==
    /\ ConnInit
    /\ dial = NoDial
    /\ lst = NoListen
    /\ \E d \in Durations : ka = KeepAliveArgs(d)

KeepAliveNext ==
    \/ KaRound
    \/ KaInterval
    \/ KaIdle

SpecKeepAlive == KeepAliveInit /\ [][KeepAliveNext]_vars

\* ================================================================= claims
InConnect == {t \in Threads : th[t].pc = "waitwrite"}
Successes == connectCalls - failConnects - Cardinality(InConnect)
RetIO == ret.op \in IOOps
RetAux == ret.op \in {"shutdown", "sockopt", "deadline"}

\* C1: callers racing on an Idle handle serialize through c.mu. At no time are
\* two invocations of connect in flight; the one in flight holds the mutex and
\* carries its caller's own payload (the buffer of a Write, nothing for a
\* Read); when no connect has failed the strategy has run at most once, and at
\* most one invocation ever succeeds; a caller that did not invoke connect is
\* at descriptor I/O only with connected observed true.
C1_ConnectSerialized ==
    /\ Cardinality(InConnect) <= 1
    /\ \A t \in InConnect :
          /\ mu = t
          /\ th[t].b = IF th[t].op = "Write" THEN Buf(t, th[t].len) ELSE <<>>
    /\ failConnects = 0 => connectCalls <= 1
    /\ Successes = IF connected THEN 1 ELSE 0
    /\ \A t \in Threads :
          th[t].pc = "fio" /\ ~th[t].ent => connected /\ th[t].cx = 0

\* C1 witness: a Read that had to wait for the mutex is at descriptor I/O
\* without having invoked connect, after the Write that won the race did the
\* one handshake and returned.
C1_Witness ==
    \E t \in Threads :
        /\ th[t].pc = "fio" /\ th[t].op = "Read" /\ th[t].w /\ ~th[t].ent
        /\ ret.op = "Write" /\ ret.ent /\ ret.setc /\ ret.err = "nil"
        /\ connectCalls = 1

\* C2: the connect strategy runs at most once per handle, whatever the calls
\* and whatever its outcome (no retry after a failure).
C2_ConnectAtMostOnce == connectCalls <= 1

C4_ClosedHandleInert ==
    /\ ~foreign
    /\ (RetAux /\ ret.ac) => ret.err # "nil"

\* C5: from dial until the first Read / ReadFrom / Write is called the handle
\* is Idle and untouched: connected is unset, connect has not been invoked,
\* nothing was sent, the mutex is free, whatever setters were called.
C5_IdleUntilFirstIO ==
    ~ioStarted =>
        /\ ~connected
        /\ connectCalls = 0
        /\ unacked = <<>>
        /\ mu = 0
        /\ \A t \in Threads : th[t] = NoCall

\* C5 witness: two calls were made on the fresh handle, the last a deadline
\* setter that armed the write deadline, and no I/O call yet.
C5_Witness ==
    ~ioStarted /\ ncalls >= 2 /\ ret.op = "deadline" /\ dl.w = "set" /\ ~closed

\* C6: a first Write on an Idle handle hands exactly its buffer to connect;
\* when it succeeds the handle is connected and the count returned is between
\* 0 and len(buf); it writes nothing through the descriptor in addition; and
\* as long as no connect has failed, the bytes handed to the kernel are
\* exactly the reported prefixes, in order.
C6_FirstWritePrefix ==
    /\ \A t \in InConnect : th[t].op = "Write" => th[t].b = Buf(t, th[t].len)
    /\ (ret.op = "Write" /\ ret.ent) =>
          /\ ~ret.fio
          /\ ret.cx <= 1
          /\ 0 <= ret.n /\ ret.n <= ret.len
          /\ ret.err = "nil" => ret.setc /\ connected
    /\ failConnects = 0 =>
          /\ streamOk
          /\ InConnect = {} => unacked = <<>>

\* C6 witness: a first Write returned a proper, non-empty prefix of its buffer
\* from the handshake and left the handle connected.
C6_Witness ==
    /\ ret.op = "Write" /\ ret.ent /\ ret.err = "nil"
    /\ 0 < ret.n /\ ret.n < ret.len
    /\ connected /\ streamOk /\ unacked = <<>>

\* C7: a first Read / ReadFrom connects with no payload and carries no bytes in
\* the handshake; descriptor I/O of a Read / ReadFrom happens only on a
\* connected handle; when its connect failed the call returned the error with
\* 0 bytes and did no descriptor I/O.
C7_ReadConnectsFirst ==
    /\ \A t \in Threads :
          /\ (th[t].pc = "fio" /\ th[t].op \in ReadOps) => connected
          /\ (th[t].pc = "waitwrite" /\ th[t].op \in ReadOps) =>
                th[t].b = <<>> /\ th[t].cn = 0
    /\ (ret.op \in ReadOps /\ ret.fio) => connected
    /\ (ret.op \in ReadOps /\ ret.ent /\ ~ret.setc) =>
          ret.n = 0 /\ ret.err # "nil" /\ ~ret.fio

\* C7 witness: a first Read did the handshake, set connected and then read a
\* byte from the descriptor.
C7_Witness ==
    /\ ret.op = "Read" /\ ret.ent /\ ret.setc /\ ret.fio
    /\ ret.err = "nil" /\ ret.n = 1

\* C8: a dial whose local address is of the other family than the remote one
\* ends with the address-family-mismatch error before any socket exists: no
\* descriptor was created, no syscall was issued.
C8_MismatchBeforeSocket ==
    (dial.pc \notin {"none", "translate"}
        /\ ~dial.laddr.nil
        /\ (Len(dial.laddr.ip) = 4 \/ dial.laddr.ip = IP4Mapped)
               # (Len(dial.raddr.ip) = 4 \/ dial.raddr.ip = IP4Mapped)) =>
        /\ dial.pc = "done"
        /\ dial.res = "ErrMismatchedAddressFamily"
        /\ dial.fd = "none"
        /\ dial.sys = <<>>

\* C8 witness: a dial from a 4-byte IPv4 local address to an IPv6 remote
\* address has ended with the mismatch error.
C8_Witness ==
    /\ dial.pc = "done" /\ dial.res = "ErrMismatchedAddressFamily"
    /\ dial.laddr.ip = IP4 /\ dial.raddr.ip = IP6

\* C9: whenever listen returns an error, the listening socket it had created
\* is closed and no listener is returned with the error.
C9_ListenFailsCleanly ==
    (lst.pc = "done" /\ lst.err # "nil") => lst.ln # "open" /\ ~lst.retLn

\* C10: on a connected handle no call invokes connect, and descriptor I/O is
\* done without c.mu: the mutex is held only by the goroutine inside connect,
\* never by one at descriptor I/O, and is free whenever the handle is
\* connected, so a blocked Read keeps no other caller out.
C10_PassThrough ==
    /\ [](/\ \A t \in Threads : th[t].pc = "fio" => mu # t
          /\ mu # 0 => th[mu].pc = "waitwrite"
          /\ connected => mu = 0 /\ InConnect = {})
    /\ [][connected => connectCalls' = connectCalls]_vars

\* C10 witness: on a connected handle a Read is blocked at the descriptor while
\* a Write by another goroutine has passed the mutex and is at the descriptor.
C10_Witness ==
    \E a, b \in Threads :
        /\ th[a].pc = "fio" /\ th[a].op = "Read"
        /\ th[b].pc = "fio" /\ th[b].op = "Write"
        /\ connected /\ mu = 0

\* C11: a call whose own deadline (the read deadline for Read, the write
\* deadline for Write and ReadFrom) had passed when its wait inside connect
\* ended returned a timeout from that wait: it did not go on to resolve the
\* handshake, set connected or use the descriptor.
C11_DeadlineBoundsHandshake ==
    (ret.op \in IOOps /\ ret.late) =>
        ret.err = "timeout" /\ ~ret.setc /\ ~ret.fio

\* C12: for a positive duration the seconds programmed are the least whole
\* number of seconds not below it; the keep-alive interval is set first, the
\* idle time only after the interval was set successfully, both to that value.
C12_KeepAliveRoundsUp ==
    (ka.pc \notin {"none", "round"} /\ ka.d > 0) =>
        /\ ka.secs * Second >= ka.d
        /\ (ka.secs - 1) * Second < ka.d
        /\ \A i \in 1..Len(ka.sys) : ka.sys[i][2] = ka.secs
        /\ Len(ka.sys) <= 2
        /\ Len(ka.sys) >= 1 => ka.sys[1][1] = "TCP_KEEPINTVL"
        /\ Len(ka.sys) = 2 => ka.sys[2][1] = "TCP_KEEPALIVE" /\ ka.sys[1][3]
        /\ ka.pc = "done" =>
              /\ Len(ka.sys) >= 1
              /\ (ka.err = "nil") = (Len(ka.sys) = 2 /\ ka.sys[2][3])

\* C12 witness: 1500 ms has programmed 2 seconds for both options.
C12_Witness ==
    /\ ka.pc = "done" /\ ka.d = 1500 /\ ka.err = "nil"
    /\ ka.sys = <<(<<"TCP_KEEPINTVL", 2, TRUE>>), (<<"TCP_KEEPALIVE", 2, TRUE>>)>>

\* C13: the TCP_FASTOPEN setsockopt on the listening socket is issued at most
\* once, only as the call right after a successful bind and listen, never
\* when listen failed, and a listen that returns without error issued it once.
C13_TFOAfterListen ==
    LET tf == {i \in 1..Len(lst.sys) : lst.sys[i] \in {"fastopen", "fastopen!"}} IN
    /\ Cardinality(tf) <= 1
    /\ lst.tfo <= 1
    /\ \A i \in tf : i = 3 /\ lst.sys[1] = "bind" /\ lst.sys[2] = "listen"
    /\ lst.err = "listen" => tf = {}
    /\ (lst.pc = "done" /\ lst.err = "nil") => lst.sys[3] = "fastopen" /\ lst.tfo = 1

\* C13 witness: a listen returned its listener, TCP_FASTOPEN set after listen.
C13_Witness ==
    /\ lst.pc = "done" /\ lst.err = "nil" /\ lst.retLn /\ lst.ln = "open"
    /\ lst.sys = <<"bind", "listen", "fastopen">>

\* C14: a call in which Connectx returned an error other than EINPROGRESS
\* returned that error and did not set connected.
C14_ConnectxErrorSurfaced ==
    (ret.op \in IOOps /\ ret.hard) => ret.err = "hard" /\ ~ret.setc

\* C15: one connect attempt issues Connectx at most once, and exactly once if
\* its closure was run at all, however often it was run; a caller waiting for writability has issued it once with
\* an in-progress result, holds the mutex, and has neither queried the socket
\* error nor set connected; the socket error is queried only after Connectx
\* was issued, and connected is set only by a call that issued Connectx once
\* and queried the socket error.
C15_ConnectxOncePerAttempt ==
    /\ \A t \in Threads :
          /\ th[t].cx <= 1
          /\ th[t].pc = "waitwrite" =>
                /\ th[t].cx = 1 /\ th[t].cb = 1 /\ th[t].done
                /\ th[t].xerr = "EINPROGRESS"
                /\ mu = t
                /\ ~th[t].qs /\ ~th[t].setc
          /\ th[t].setc => th[t].cx = 1 /\ th[t].qs
    /\ ret.cx <= 1 /\ ret.cb <= 2
    /\ ret.qs => ret.cx = 1
    /\ ret.setc => ret.cx = 1 /\ ret.qs
    /\ ret.cb >= 1 => ret.cx = 1

\* C15 witness: a Write whose Connectx was in progress waited, had its closure
\* run a second time, and connected having issued Connectx once.
C15_Witness ==
    /\ ret.op = "Write" /\ ret.cb = 2 /\ ret.cx = 1 /\ ret.setc /\ ret.qs
    /\ ret.err = "nil" /\ connected

\* C16: a dial that returned an error has no descriptor left open.
C16_DialNeverLeaks ==
    (dial.pc = "done" /\ dial.res # "ok") => dial.fd # "open"

\* C17: once dial has translated its addresses, the family is the remote
\* address's, both socket addresses are of that family, each carries the port
\* and the address bytes (4 for IPv4 in either representation, 16 for IPv6)
\* of the address it was made from, and without a local address the local
\* socket address is the zero wildcard with port 0 and no bind is issued.
C17_AddressTranslation ==
    LET bytes(a) == IF To4(a.ip) # <<>> THEN To4(a.ip) ELSE a.ip
        fam(a) == IF To4(a.ip) # <<>> THEN "AF_INET" ELSE "AF_INET6"
        binds == {i \in 1..Len(dial.sys) : dial.sys[i] \in {"bind", "bind!"}}
    IN (dial.pc \in {"socket", "options", "bind", "done"}
            /\ dial.res # "ErrMismatchedAddressFamily") =>
        /\ dial.domain = fam(dial.raddr)
        /\ dial.rsockaddr.family = dial.domain
        /\ dial.lsockaddr.family = dial.domain
        /\ dial.rsockaddr.port = dial.raddr.port
        /\ dial.rsockaddr.addr = bytes(dial.raddr)
        /\ ~dial.laddr.nil =>
              /\ dial.lsockaddr.port = dial.laddr.port
              /\ dial.lsockaddr.addr = bytes(dial.laddr)
        /\ dial.laddr.nil =>
              /\ dial.lsockaddr.port = 0
              /\ dial.lsockaddr.addr = Zeros(Len(dial.lsockaddr.addr))
              /\ Len(dial.lsockaddr.addr) = (IF dial.domain = "AF_INET" THEN 4 ELSE 16)
              /\ binds = {}

\* C18: no step of CloseRead, CloseWrite, an option setter or a deadline
\* setter changes a call in flight, the mutex, the connected flag or the count
\* of connect invocations, whatever state the handle is in; and an option a
\* setter has set on the handle's socket stays set as long as the socket is
\* open, through any later connect.
C18_SettersLeaveHandshake ==
    /\ [](sockopt.asked /\ ~closed => sockopt.on)
    /\ [][(CloseHalf \/ SetSockopt \/ SetDeadlines) =>
             UNCHANGED <<th, mu, connected, connectCalls, failConnects>>]_vars

\* C18 witness: an option set while the handle was Idle is in force after a
\* Write has connected it.
C18_Witness ==
    /\ sockopt.asked /\ sockopt.on /\ ~closed
    /\ ret.op = "Write" /\ ret.setc /\ ret.err = "nil" /\ connected /\ ncalls = 2

\* C19: connected is false in the handle dial returns; no step resets it; a
\* step that sets it is the step of one Read, ReadFrom or Write that held
\* the mutex alone (it was free or its own, and is free afterwards), had
\* entered connect, and whose connect returned no error; a step in which a
\* connect returned an error leaves it as it was, and a call whose connect
\* returned an error did not set it.
C19_ConnectedMonotonic ==
    /\ ~connected
    /\ [](/\ (ret.op \in IOOps /\ ret.ent /\ ret.err # "nil" /\ ~ret.fio) => ~ret.setc
          /\ ret.setc => ret.ent)
    /\ [][/\ connected => connected'
          /\ failConnects' # failConnects => connected' = connected
          /\ (~connected /\ connected') =>
                \E t \in Threads :
                   /\ th[t].pc \in {"idle", "lock", "waitwrite"}
                   /\ mu \in {0, t}
                   /\ th[t].pc = "waitwrite" => mu = t
                   /\ mu' = 0
                   /\ connectCalls' - connectCalls = (IF th[t].pc = "waitwrite" THEN 0 ELSE 1)
                   /\ \/ /\ th'[t].pc = "fio" /\ th'[t].op \in ReadOps
                         /\ th'[t].ent /\ th'[t].setc
                      \/ /\ th'[t] = NoCall
                         /\ ret'.op = "Write" /\ ret'.ent /\ ret'.setc
                         /\ ret'.err = "nil"]_vars

\* C19 witness: a handle that a Write connected has been closed and connected
\* is still set.
C19_Witness ==
    /\ connected /\ closed /\ ret.op = "Close" /\ ret.err = "nil" /\ connectCalls = 1

\* C20: the mutex is held only by a caller inside connect, never by a call
\* that has returned or has gone on to descriptor I/O; and, connects coming
\* to an end, no caller stays blocked on the mutex or inside connect for
\* ever: each gets to descriptor I/O or returns.
C20_MutexReleased ==
    /\ [](/\ mu # 0 => th[mu].pc = "waitwrite"
          /\ \A t \in Threads : th[t].pc \in {"idle", "lock", "fio"} => mu # t)
    /\ \A t \in Threads : []<>(th[t].pc \in {"fio", "idle"})

\* C20 witness: a caller that was blocked on the mutex behind a connect that
\* failed has acquired it and is inside its own connect.
C20_Witness ==
    \E t \in Threads :
       /\ th[t].w /\ th[t].pc = "waitwrite" /\ mu = t
       /\ failConnects = 1 /\ ret.ent /\ ret.err # "nil"
====
